---- MODULE Spec2Model ----
(***************************************************************************)
(* Exposures (climada/entity/exposures/base.py): consistency check,        *)
(* assignment of hazard centroids and merge of exposure sets.              *)
(*                                                                         *)
(* Objects live in a heap.  An Exposures object holds its numpy arrays by  *)
(* value (no array is ever modified in place while shared) and holds its   *)
(* Tag and its assigned dict by reference, since both are mutated in place *)
(* (Tag.append, self.assigned[k] = ...) and are shared after               *)
(* self.__dict__ = exposures.__dict__.copy().                              *)
(***************************************************************************)
EXTENDS Integers, Sequences, FiniteSets, TLC

VARIABLES exps,   \* object name -> record of the Exposures attributes
          tags,   \* Tag reference -> sequence of source file names
          dicts,  \* dict reference -> assigned mapping (hazard type -> array)
          pc,     \* object name -> "new" (just constructed), "filled" or
                  \* "merged" (appended to another set)
          nops,   \* number of check/assign/append calls made so far
          last    \* the last call: operation, operands, outcome, heap before

vars == <<exps, tags, dicts, pc, nops, last>>

----------------------------------------------------------------------------
\* Bounds of the model
MaxN == 2       \* largest number of exposures a populated set starts with
MaxOps == 2     \* number of check/assign/append calls in one run

\* CONFIG["present_ref_year"], the reference year clear() sets
present_ref_year == 2016

Years == {present_ref_year, present_ref_year + 1}
Units == {"NA", "USD", "EUR"}
IdValues == {1, 2}      \* the identifiers populated sets are given
Fields == {"tag", "ref_year", "value_unit", "coord", "value", "impact_id",
           "id", "deductible", "cover", "category_id", "region_id", "assigned"}

----------------------------------------------------------------------------
\* Sequence helpers (numpy primitives)

Range(s) == {s[i] : i \in 1..Len(s)}

\* np.unique(a).size
UniqueSize(s) == Cardinality(Range(s))

\* np.max(a), a non-empty
MaxOf(s) == CHOOSE m \in Range(s) : \A x \in Range(s) : x <= m

\* np.zeros(n)
Zeros(n) == [i \in 1..n |-> 0]

\* keys of a dict
Keys(d) == DOMAIN d

EmptyDict == [k \in {} |-> <<>>]

----------------------------------------------------------------------------
\* climada.util.checker

\* check.size(exp_len, var, var_name): TRUE iff it does not raise
size(exp_len, var) == Len(var) = exp_len

\* check.shape(exp_row, exp_col, var, var_name): TRUE iff it does not raise
shape(exp_row, exp_col, var) ==
    /\ Len(var) = exp_row
    /\ \A i \in 1..Len(var) : Len(var[i]) = exp_col

\* check.array_optional(exp_len, var, var_name): TRUE iff it does not raise
array_optional(exp_len, var) == Len(var) = 0 \/ size(exp_len, var)

\* check.array_default(exp_len, var, var_name, def_val)
array_default(exp_len, var, def_val) ==
    IF Len(var) = 0 THEN [ok |-> TRUE, res |-> def_val]
    ELSE [ok |-> size(exp_len, var), res |-> var]

----------------------------------------------------------------------------
\* climada.entity.tag.Tag, as the sequence of its file names

\* Tag()
NoTag == <<>>

\* Tag.append(tag): the file names of tag are added to those of self
Tag_append(self, tag) == self \o tag

----------------------------------------------------------------------------
\* Exposures

\* Exposures.clear(): the attributes of object o after construction
clear(o) ==
    [tag |-> o, ref_year |-> present_ref_year, value_unit |-> "NA",
     coord |-> <<>>, value |-> <<>>, impact_id |-> <<>>, id |-> <<>>,
     deductible |-> <<>>, cover |-> <<>>,
     category_id |-> <<>>, region_id |-> <<>>, assigned |-> o]

\* The heap: objects, tags, dicts
Heap == [exps |-> exps, tags |-> tags, dicts |-> dicts]

\* _check_obligatories without its check of coord
_check_obligatories_NoCoord(e, num_exp) ==
    /\ size(num_exp, e.value)
    /\ size(num_exp, e.impact_id)

\* Exposures._check_obligatories(num_exp): TRUE iff it does not raise
_check_obligatories(e, num_exp) ==
    /\ size(num_exp, e.value)
    /\ size(num_exp, e.impact_id)
    /\ shape(num_exp, 2, e.coord)

\* Exposures._check_optionals(num_exp): TRUE iff it does not raise;
\* ass is the assigned dict of the object
_check_optionals(e, ass, num_exp) ==
    /\ array_optional(num_exp, e.category_id)
    /\ array_optional(num_exp, e.region_id)
    /\ \A ass_haz \in Keys(ass) : array_optional(num_exp, ass[ass_haz])

\* _check_defaults with cover defaulted to zeros as deductible is
_check_defaults_CoverZero(e, num_exp) ==
    LET ded == array_default(num_exp, e.deductible, Zeros(num_exp))
        e1  == [e EXCEPT !.deductible = ded.res]
        cov == array_default(num_exp, e1.cover, Zeros(num_exp))
    IN  IF ~ded.ok THEN [ok |-> FALSE, e |-> e]
        ELSE IF ~cov.ok THEN [ok |-> FALSE, e |-> e1]
        ELSE [ok |-> TRUE, e |-> [e1 EXCEPT !.cover = cov.res]]

\* Exposures._check_defaults(num_exp): deductible is assigned before cover
\* is examined, so a failure on cover leaves deductible backfilled
_check_defaults(e, num_exp) ==
    LET ded == array_default(num_exp, e.deductible, Zeros(num_exp))
        e1  == [e EXCEPT !.deductible = ded.res]
        cov == array_default(num_exp, e1.cover, e1.value)
    IN  IF ~ded.ok THEN [ok |-> FALSE, e |-> e]
        ELSE IF ~cov.ok THEN [ok |-> FALSE, e |-> e1]
        ELSE [ok |-> TRUE, e |-> [e1 EXCEPT !.cover = cov.res]]

\* check with _check_defaults called before _check_optionals
check_DefaultsFirst(e, ass) ==
    LET num_exp == Len(e.id)
        d == _check_defaults(e, num_exp)
    IN  IF UniqueSize(e.id) # num_exp
        THEN [ok |-> FALSE, e |-> e, step |-> "unique"]
        ELSE IF ~_check_obligatories(e, num_exp)
        THEN [ok |-> FALSE, e |-> e, step |-> "obligatories"]
        ELSE IF ~d.ok
        THEN [ok |-> FALSE, e |-> d.e, step |-> "defaults"]
        ELSE IF ~_check_optionals(e, ass, num_exp)
        THEN [ok |-> FALSE, e |-> d.e, step |-> "optionals"]
        ELSE [ok |-> TRUE, e |-> d.e, step |-> ""]

\* Exposures.check(): outcome, the attributes afterwards and the step that
\* raised ("" if none)
check(e, ass) ==
    LET num_exp == Len(e.id)
    IN  IF UniqueSize(e.id) # num_exp
        THEN [ok |-> FALSE, e |-> e, step |-> "unique"]
        ELSE IF ~_check_obligatories(e, num_exp)
        THEN [ok |-> FALSE, e |-> e, step |-> "obligatories"]
        ELSE IF ~_check_optionals(e, ass, num_exp)
        THEN [ok |-> FALSE, e |-> e, step |-> "optionals"]
        ELSE LET d == _check_defaults(e, num_exp)
             IN  [ok |-> d.ok, e |-> d.e,
                  step |-> IF d.ok THEN "" ELSE "defaults"]

\* _append_optional keeping ini where it should return an empty array
_append_optional_KeepIni(ini, to_add) ==
    IF Len(ini) # 0 /\ Len(to_add) # 0 THEN ini \o to_add ELSE ini

\* Exposures._append_optional(ini, to_add)
_append_optional(ini, to_add) ==
    IF Len(ini) # 0 /\ Len(to_add) # 0 THEN ini \o to_add ELSE <<>>

\* The positions np.delete(np.arange(id.size), indices) of append: those that
\* are not the first occurrence of their value
DupPositions(ids) ==
    {i \in 1..Len(ids) : \E j \in 1..(i-1) : ids[j] = ids[i]}

\* Renumber without new_id += 1
Renumber_NoStep(ids) ==
    LET dups == DupPositions(ids)
        new_id == MaxOf(ids) + 1
    IN  [i \in 1..Len(ids) |-> IF i \in dups THEN new_id ELSE ids[i]]

\* Renumber giving new ids to the first occurrences, keeping the last
Renumber_KeepLast(ids) ==
    LET dups == {i \in 1..Len(ids) :
                    \E j \in (i+1)..Len(ids) : ids[j] = ids[i]}
        new_id == MaxOf(ids) + 1
    IN  [i \in 1..Len(ids) |->
            IF i \in dups
            THEN new_id + Cardinality({j \in dups : j < i})
            ELSE ids[i]]

\* "provide new ids to repeated ones" of append
Renumber(ids) ==
    LET dups == DupPositions(ids)
        new_id == MaxOf(ids) + 1
    IN  [i \in 1..Len(ids) |->
            IF i \in dups
            THEN new_id + Cardinality({j \in dups : j < i})
            ELSE ids[i]]

\* The loop of append without its "not in self.assigned" branch
MergeAssigned_DropNew(mine, theirs) ==
    [ass_haz \in Keys(mine) |->
        IF ass_haz \notin Keys(theirs) THEN mine[ass_haz]
        ELSE _append_optional(mine[ass_haz], theirs[ass_haz])]

\* The loop over exposures.assigned.items() of append
MergeAssigned(mine, theirs) ==
    [ass_haz \in Keys(mine) \cup Keys(theirs) |->
        IF ass_haz \notin Keys(theirs) THEN mine[ass_haz]
        ELSE IF ass_haz \notin Keys(mine) THEN theirs[ass_haz]
        ELSE _append_optional(mine[ass_haz], theirs[ass_haz])]

\* The unit comparison without the branch that adopts the unit of exposures
MergeUnit_KeepBase(mine, theirs) ==
    IF mine = "NA" \/ theirs = "NA" THEN mine
    ELSE IF mine # theirs THEN ""
    ELSE mine

\* The value unit append settles on; "" when it raises
MergeUnit(mine, theirs) ==
    IF mine = "NA" /\ theirs # "NA" THEN theirs
    ELSE IF theirs = "NA" THEN mine
    ELSE IF mine # theirs THEN ""
    ELSE mine

\* The comparison of the years rejecting only a later year of exposures
RefYearDiffers_OnlyLater(mine, theirs) == mine < theirs

\* if self.ref_year != exposures.ref_year of append
RefYearDiffers(mine, theirs) == mine # theirs

\* A copy of the arrays only, ref_year and value_unit left as they were
dict_copy_ArraysOnly(me, ex) ==
    [ex EXCEPT !.ref_year = me.ref_year, !.value_unit = me.value_unit]

\* self.__dict__ = exposures.__dict__.copy() of append: every attribute of
\* self becomes that of exposures, the Tag and the assigned dict shared
dict_copy(me, ex) == ex

\* Exposures.append(exposures) of object self with argument object other on
\* heap H: the outcome and the heap afterwards
append(H, self, other) ==
    LET d  == _check_defaults(H.exps[self], Len(H.exps[self].id))
        H1 == [H EXCEPT !.exps[self] = d.e]
        c  == check(H1.exps[other], H1.dicts[H1.exps[other].assigned])
        H2 == [H1 EXCEPT !.exps[other] = c.e]
        me == H2.exps[self]
        ex == H2.exps[other]
        H3 == [H2 EXCEPT !.tags[me.tag] =
                            Tag_append(H2.tags[me.tag], H2.tags[ex.tag])]
        unit == MergeUnit(me.value_unit, ex.value_unit)
        merged == [me EXCEPT
                     !.value_unit  = unit,
                     !.coord       = me.coord \o ex.coord,
                     !.value       = me.value \o ex.value,
                     !.impact_id   = me.impact_id \o ex.impact_id,
                     !.id          = Renumber(me.id \o ex.id),
                     !.deductible  = me.deductible \o ex.deductible,
                     !.cover       = me.cover \o ex.cover,
                     !.category_id = _append_optional(me.category_id,
                                                      ex.category_id),
                     !.region_id   = _append_optional(me.region_id,
                                                      ex.region_id)]
    IN  IF ~d.ok THEN [ok |-> FALSE, H |-> H1, why |-> "base"]
        ELSE IF ~c.ok THEN [ok |-> FALSE, H |-> H2, why |-> "check"]
        ELSE IF Len(me.id) = 0
        THEN [ok |-> TRUE, H |-> [H2 EXCEPT !.exps[self] = dict_copy(me, ex)],
              why |-> "empty"]
        ELSE IF RefYearDiffers(me.ref_year, ex.ref_year)
        THEN [ok |-> FALSE, H |-> H3, why |-> "ref_year"]
        ELSE IF unit = ""
        THEN [ok |-> FALSE, H |-> H3, why |-> "value_unit"]
        ELSE [ok |-> TRUE,
              H |-> [H3 EXCEPT
                       !.exps[self] = merged,
                       !.dicts[me.assigned] =
                           MergeAssigned(H3.dicts[me.assigned],
                                         H3.dicts[ex.assigned])],
              why |-> "merged"]

----------------------------------------------------------------------------
\* climada.util.coordinates / climada.util.interpolation

\* Squared planar distance between two (lat, lon) rows
Dist2(p, q) == (p[1] - q[1]) * (p[1] - q[1]) + (p[2] - q[2]) * (p[2] - q[2])

\* Index (from 0, as numpy counts) of the centroid nearest to row p, the
\* lowest index winning a tie
Nearest(centroids, p) ==
    (CHOOSE k \in 1..Len(centroids) :
        /\ \A m \in 1..Len(centroids) :
              Dist2(centroids[k], p) <= Dist2(centroids[m], p)
        /\ \A m \in 1..(k-1) :
              Dist2(centroids[m], p) > Dist2(centroids[k], p)) - 1

\* Coordinates.resample(coord, method, dist): one centroid index per row
resample(centroids, coord) ==
    [i \in 1..Len(coord) |-> Nearest(centroids, coord[i])]

\* The hazards assign is called with: a hazard type and its centroids
Hazards ==
    {[haz_type |-> "TC", centroids |-> << <<10, 1>>, <<20, 1>> >>],
     [haz_type |-> "TC", centroids |-> << <<20, 2>>, <<10, 2>>, <<11, 1>> >>]}

\* assign storing its result in a fresh dict
assign_FreshDict(H, self, hazard) ==
    [H EXCEPT !.dicts[H.exps[self].assigned] =
        [k \in {hazard.haz_type} |->
            resample(hazard.centroids, H.exps[self].coord)]]

\* Exposures.assign(hazard) of object self on heap H
assign(H, self, hazard) ==
    [H EXCEPT !.dicts[H.exps[self].assigned] =
        [k \in Keys(@) \cup {hazard.haz_type} |->
            IF k = hazard.haz_type
            THEN resample(hazard.centroids, H.exps[self].coord)
            ELSE @[k]]]

----------------------------------------------------------------------------
\* Populated, not yet validated sets, as a Reader or direct assignment of
\* the attributes leaves them

\* Objects of the same number are populated with the same content
ObjNo(o) ==
    CASE o \in {"base", "A", "A2"} -> 1
      [] o \in {"X", "B", "B2"} -> 2
      [] OTHER -> 3

\* Array of attribute number f of object o with n entries; all entries of
\* all arrays differ, and none is zero
arr(o, f, n) == [i \in 1..n |-> 100 * f + 10 * ObjNo(o) + i]

\* (lat, lon) rows of object o
rows(o, n) == [i \in 1..n |-> <<10 * ObjNo(o) + i, i>>]

\* An attribute left empty, filled with n entries, or filled with a wrong
\* number of entries
Filled(o, f, n, how) ==
    CASE how = "empty" -> <<>>
      [] how = "ok"    -> arr(o, f, n)
      [] how = "bad"   -> arr(o, f, n + 1)

IdSeqs == UNION {[1..n -> IdValues] : n \in 0..MaxN}

Knobs(ids, unit, year, val, imp, crd, ded, cov, cat, reg, ass) ==
    [ids |-> ids, unit |-> unit, year |-> year, val |-> val, imp |-> imp,
     crd |-> crd, ded |-> ded, cov |-> cov, cat |-> cat, reg |-> reg,
     ass |-> ass]

\* The plain set of n exposures: identifiers 1..n, nothing optional filled
Plain(n) ==
    Knobs([i \in 1..n |-> i], "NA", present_ref_year, "ok", "ok", "ok",
          "empty", "empty", "empty", "empty", "empty")

Present == {"empty", "ok"}

\* The inputs: the plain sets varied in their identifiers; in unit and
\* reference year; in the defaultable attributes; in the optional ones;
\* and in one attribute of a wrong length
InputKnobs ==
    {[Plain(Len(ids)) EXCEPT !.ids = ids] : ids \in IdSeqs}
    \cup {[Plain(1) EXCEPT !.unit = u, !.year = y] :
             u \in Units, y \in Years}
    \cup {[Plain(MaxN) EXCEPT !.ded = d, !.cov = c] :
             d \in Present, c \in Present}
    \cup {[Plain(MaxN) EXCEPT !.cat = c, !.reg = r, !.ass = a] :
             c \in Present, r \in Present, a \in Present}
    \cup {[Plain(1) EXCEPT ![f] = "bad"] :
             f \in {"val", "imp", "crd", "ded", "cov", "cat", "reg", "ass"}}
    \cup {[Plain(0) EXCEPT ![f] = "bad"] : f \in {"val", "ded", "cov"}}

\* The attributes of object o populated according to knobs k
Populate(o, k) ==
    LET n == Len(k.ids)
    IN  [tag |-> o, ref_year |-> k.year, value_unit |-> k.unit,
         coord |-> rows(o, IF k.crd = "bad" THEN n + 1 ELSE n),
         value |-> Filled(o, 1, n, k.val),
         impact_id |-> Filled(o, 2, n, k.imp),
         id |-> k.ids,
         deductible |-> Filled(o, 3, n, k.ded),
         cover |-> Filled(o, 4, n, k.cov),
         category_id |-> Filled(o, 5, n, k.cat),
         region_id |-> Filled(o, 6, n, k.reg),
         assigned |-> o]

\* The assigned dict a Reader leaves: empty, or centroid indices under 'NA'
PopulateAssigned(o, k) ==
    IF k.ass = "empty" THEN EmptyDict
    ELSE [h \in {"NA"} |-> Filled(o, 7, Len(k.ids), k.ass)]

----------------------------------------------------------------------------
\* The program: two Exposures objects, populated and then checked, assigned
\* and appended to each other in any order

Objs == {"base", "X"}

NoCall == [op |-> "none"]

Init ==
    /\ exps = [o \in Objs |-> clear(o)]
    /\ tags = [o \in Objs |-> NoTag]
    /\ dicts = [o \in Objs |-> EmptyDict]
    /\ pc = [o \in Objs |-> "new"]
    /\ nops = 0
    /\ last = NoCall

\* new_exp = Exposures(); new_exp.tag = Tag(file_name, description);
\* reader(new_exp, file_name, var_names)
ReadCall(o) ==
    /\ pc[o] = "new"
    /\ nops = 0
    /\ \E k \in InputKnobs :
          /\ exps' = [exps EXCEPT ![o] = Populate(o, k)]
          /\ dicts' = [dicts EXCEPT ![o] = PopulateAssigned(o, k)]
    /\ tags' = [tags EXCEPT ![o] = <<o>>]
    /\ pc' = [pc EXCEPT ![o] = "filled"]
    /\ UNCHANGED <<nops, last>>

\* o.check()
CheckCall(o) ==
    /\ nops < MaxOps
    /\ LET c == check(exps[o], dicts[exps[o].assigned])
       IN  /\ exps' = [exps EXCEPT ![o] = c.e]
           /\ last' = [op |-> "check", self |-> o, ok |-> c.ok,
                       why |-> c.step, pre |-> Heap]
    /\ nops' = nops + 1
    /\ UNCHANGED <<tags, dicts, pc>>

\* o.assign(hazard)
AssignCall(o) ==
    /\ nops < MaxOps
    /\ \E hazard \in Hazards :
          LET H == assign(Heap, o, hazard)
          IN  /\ dicts' = H.dicts
              /\ last' = [op |-> "assign", self |-> o, ok |-> TRUE,
                          haz_type |-> hazard.haz_type,
                          centroids |-> hazard.centroids, pre |-> Heap]
    /\ nops' = nops + 1
    /\ UNCHANGED <<exps, tags, pc>>

\* o.append(x)
AppendStep(o, x) ==
    /\ LET r == append(Heap, o, x)
       IN  /\ exps' = r.H.exps
           /\ tags' = r.H.tags
           /\ dicts' = r.H.dicts
           /\ last' = [op |-> "append", self |-> o, other |-> x,
                       ok |-> r.ok, why |-> r.why, pre |-> Heap]
    /\ nops' = nops + 1

\* x counts as merged once an append has taken it in
AppendCall(o, x) ==
    /\ nops < MaxOps
    /\ AppendStep(o, x)
    /\ pc' = [pc EXCEPT ![x] = IF append(Heap, o, x).ok THEN "merged"
                               ELSE @]

Next ==
    \/ \E o \in Objs : ReadCall(o)
    \/ \E o \in Objs : CheckCall(o)
    \/ \E o \in Objs : AssignCall(o)
    \/ \E o \in Objs : \E x \in Objs \ {o} : AppendCall(o, x)

Spec == Init /\ [][Next]_vars

----------------------------------------------------------------------------
\* What a caller sees of object o on heap H: its attributes, with the Tag
\* and the assigned dict it refers to

View(H, o) ==
    [H.exps[o] EXCEPT !.tag = H.tags[@], !.assigned = H.dicts[@]]

AssignedOf(H, o) == H.dicts[H.exps[o].assigned]

\* o passes check() on heap H
Valid(H, o) == check(H.exps[o], AssignedOf(H, o)).ok

\* o as its check() leaves it
Validated(H, o) == check(H.exps[o], AssignedOf(H, o)).e

Distinct(s) == \A i, j \in 1..Len(s) : s[i] = s[j] => i = j

\* The last call was self.append(other)
WasAppend == last.op = "append"

\* ... on a base that had exposures
WasAppendNonEmpty == WasAppend /\ Len(last.pre.exps[last.self].id) # 0

\* ... and it returned without raising
AppendedNonEmpty == WasAppendNonEmpty /\ last.ok

\* base and incoming of the last append, as they were before the call
PreBase == last.pre.exps[last.self]
PreInc == last.pre.exps[last.other]
PreBaseAssigned == AssignedOf(last.pre, last.self)
PreIncAssigned == AssignedOf(last.pre, last.other)

\* base of the last append as it is now
Merged == exps[last.self]
MergedAssigned == AssignedOf(Heap, last.self)

----------------------------------------------------------------------------
\* C1: whenever append on a non-empty base raises, every caller-visible
\* attribute of base has the value it had before the call.
C1_FailedAppendLeavesBase ==
    (WasAppendNonEmpty /\ ~last.ok)
        => View(Heap, last.self) = View(last.pre, last.self)

\* Every entry of the assigned dict of o is empty or as long as id
AssignedLengthsOk(H, o) ==
    \A k \in Keys(AssignedOf(H, o)) :
        \/ Len(AssignedOf(H, o)[k]) = 0
        \/ Len(AssignedOf(H, o)[k]) = Len(H.exps[o].id)

\* C2: from valid sets, assign and successful append keep every entry of
\* assigned either empty or as long as the number of exposures.
C2_AssignedEntriesHaveLengthN ==
    (/\ last.op \in {"assign", "append"}
     /\ last.ok
     /\ \A o \in Objs : Valid(last.pre, o))
        => \A o \in Objs : AssignedLengthsOk(Heap, o)

\* C3: after every successful append the identifiers of the merged set are
\* pairwise distinct.
C3_MergedIdsDistinct ==
    (WasAppend /\ last.ok) => Distinct(Merged.id)

\* A successful append met identifiers that occurred twice
C3_Witness ==
    /\ AppendedNonEmpty
    /\ ~Distinct(PreBase.id \o PreInc.id)
    /\ Distinct(Merged.id)

\* The identifiers append concatenates, before it renumbers them
Concatenated == PreBase.id \o PreInc.id

\* The positions of s that repeat the value of an earlier position
Repeats(s) == {i \in 1..Len(s) : \E j \in 1..Len(s) : j < i /\ s[j] = s[i]}

\* C4, first half: renumbering changes exactly the repeating positions of the
\* concatenated identifiers, which receive max+1, max+2, ... in index order.
RenumbersExactlyRepeats ==
    LET old == Concatenated
        new == Merged.id
        top == MaxOf(old)
    IN  /\ Len(new) = Len(old)
        /\ \A i \in 1..Len(old) : i \notin Repeats(old) => new[i] = old[i]
        /\ \A i \in Repeats(old) :
              new[i] = top + Cardinality({j \in Repeats(old) : j <= i})

BaseIdsUntouched ==
    \A i \in 1..Len(PreBase.id) : Merged.id[i] = PreBase.id[i]

DisjointIds == Range(PreBase.id) \cap Range(PreInc.id) = {}

\* C4 as claimed: ... so all ids of base stay untouched, and when base and
\* incoming have disjoint ids no id changes at all, for every non-empty base
\* that append accepts.
C4_Original ==
    AppendedNonEmpty =>
        /\ RenumbersExactlyRepeats
        /\ BaseIdsUntouched
        /\ (DisjointIds => Merged.id = Concatenated)

\* C4 amended: renumbering changes exactly the repeating positions of the
\* concatenated identifiers, which receive max+1, max+2, ... in index order;
\* when the identifiers of base are pairwise distinct all of them stay
\* untouched, and when moreover base and incoming have disjoint identifiers
\* no identifier changes at all.
C4_RenumberOnlyRepeats ==
    AppendedNonEmpty =>
        /\ RenumbersExactlyRepeats
        /\ Distinct(PreBase.id) =>
              /\ BaseIdsUntouched
              /\ (DisjointIds => Merged.id = Concatenated)

\* An append renumbered an identifier of incoming and kept those of base
C4_Witness ==
    /\ AppendedNonEmpty
    /\ Distinct(PreBase.id)
    /\ ~DisjointIds
    /\ Merged.id # Concatenated
    /\ Len(PreInc.id) >= 2

C7_AssignedMerge ==
    AppendedNonEmpty =>
        LET b == PreBaseAssigned
            x == PreIncAssigned
            m == MergedAssigned
        IN  /\ Keys(m) = Keys(b) \cup Keys(x)
            /\ \A k \in Keys(b) \cap Keys(x) :
                  IF Len(b[k]) > 0 /\ Len(x[k]) > 0
                  THEN m[k] = b[k] \o x[k]
                  ELSE m[k] = <<>>
            /\ \A k \in Keys(b) \ Keys(x) : m[k] = b[k]
            /\ \A k \in Keys(x) \ Keys(b) : m[k] = x[k]

\* An append merged a key of both sides and carried over a key of one side
C7_Witness ==
    /\ AppendedNonEmpty
    /\ \E k \in Keys(PreBaseAssigned) \cap Keys(PreIncAssigned) :
          Len(MergedAssigned[k]) = Len(Merged.id)
    /\ \E k \in Keys(PreBaseAssigned) \ Keys(PreIncAssigned) :
          Len(MergedAssigned[k]) > 0

\* What C8 says of an optional array: both followed by each other if neither
\* is empty, empty otherwise
BothOrEmpty(b, x, m) ==
    IF Len(b) > 0 /\ Len(x) > 0 THEN m = b \o x ELSE m = <<>>

\* C8: after a successful append on a non-empty base, category_id and
\* region_id are base's array followed by incoming's if both are filled and
\* empty otherwise, also when incoming has no exposures.
C8_OptionalBothOrEmpty ==
    AppendedNonEmpty =>
        /\ BothOrEmpty(PreBase.category_id, PreInc.category_id,
                       Merged.category_id)
        /\ BothOrEmpty(PreBase.region_id, PreInc.region_id,
                       Merged.region_id)

\* An append joined category_id of both sides and dropped the region_id that
\* only base had
C8_Witness ==
    /\ AppendedNonEmpty
    /\ Len(PreInc.category_id) > 0
    /\ Len(Merged.category_id) = Len(Merged.id)
    /\ Len(PreBase.region_id) > 0
    /\ Len(Merged.region_id) = 0

\* deductible and cover of e, absent ones replaced by their defaults
DeductibleOrZero(e) ==
    IF Len(e.deductible) = 0 THEN [i \in 1..Len(e.id) |-> 0]
    ELSE e.deductible

CoverOrValue(e) == IF Len(e.cover) = 0 THEN e.value ELSE e.cover

\* C9: after a successful append of a valid incoming to a valid non-empty
\* base, coord, value, impact_id, id, deductible and cover are base's array
\* followed by incoming's (id up to renumbering), all as long as both sets
\* together, absent deductible and cover being the defaults of their side.
C9_ArraysConcatenated ==
    (AppendedNonEmpty /\ Valid(last.pre, last.self))
        => LET n == Len(PreBase.id) + Len(PreInc.id)
           IN  /\ Merged.coord = PreBase.coord \o PreInc.coord
               /\ Merged.value = PreBase.value \o PreInc.value
               /\ Merged.impact_id = PreBase.impact_id \o PreInc.impact_id
               /\ Len(Merged.id) = n
               /\ \A i \in 1..n :
                     i \notin Repeats(Concatenated)
                         => Merged.id[i] = Concatenated[i]
               /\ Merged.deductible =
                     DeductibleOrZero(PreBase) \o DeductibleOrZero(PreInc)
               /\ Merged.cover = CoverOrValue(PreBase) \o CoverOrValue(PreInc)
               /\ Len(Merged.coord) = n /\ Len(Merged.value) = n
               /\ Len(Merged.impact_id) = n /\ Len(Merged.deductible) = n
               /\ Len(Merged.cover) = n

\* An append joined a base without deductible and cover to an incoming that
\* had both
C9_Witness ==
    /\ AppendedNonEmpty /\ Valid(last.pre, last.self)
    /\ Len(PreBase.deductible) = 0 /\ Len(PreBase.cover) = 0
    /\ Len(PreInc.deductible) > 0 /\ Len(PreInc.cover) > 0
    /\ Len(Merged.cover) = Len(Merged.id)

\* deductible and cover of e are absent or as long as id
DefaultsFit(e) ==
    /\ Len(e.deductible) \in {0, Len(e.id)}
    /\ Len(e.cover) \in {0, Len(e.id)}

\* append on a non-empty base gets as far as comparing the units
ReachedUnits ==
    /\ WasAppendNonEmpty
    /\ DefaultsFit(PreBase)
    /\ Valid(last.pre, last.other)
    /\ PreBase.ref_year = PreInc.ref_year

\* C10: the unit of incoming is adopted if base has none; the unit of base
\* is kept if incoming has none or the same; append raises if both have one
\* and they differ.
C10_UnitReconciliation ==
    ReachedUnits =>
        LET b == PreBase.value_unit
            x == PreInc.value_unit
        IN  /\ (b = "NA" /\ x # "NA") => (last.ok /\ Merged.value_unit = x)
            /\ x = "NA" => (last.ok /\ Merged.value_unit = b)
            /\ (b # "NA" /\ x # "NA" /\ b = x)
                  => (last.ok /\ Merged.value_unit = b)
            /\ (b # "NA" /\ x # "NA" /\ b # x) => ~last.ok

\* An append adopted the unit of incoming
C10_Witness ==
    /\ ReachedUnits /\ last.ok
    /\ PreBase.value_unit = "NA"
    /\ Merged.value_unit = "USD"

----------------------------------------------------------------------------
\* Merging three sets in both groupings: A.append(B); A.append(C) on one
\* copy of the sets, B2.append(C2); A2.append(B2) on another

ObjsAssoc == {"A", "B", "C", "A2", "B2", "C2"}

\* The inputs that pass check()
ValidKnobs ==
    {k \in InputKnobs :
        check(Populate("A", k), PopulateAssigned("A", k)).ok}

\* No two of the units are set and differ
CompatibleUnits(us) ==
    \A u \in us : \A v \in us : u = "NA" \/ v = "NA" \/ u = v

InitAssoc ==
    \E ka \in ValidKnobs : \E kb \in ValidKnobs : \E kc \in ValidKnobs :
        LET K(o) == CASE ObjNo(o) = 1 -> ka [] ObjNo(o) = 2 -> kb
                      [] OTHER -> kc
        IN  /\ ka.year = kb.year /\ kb.year = kc.year
            /\ CompatibleUnits({ka.unit, kb.unit, kc.unit})
            /\ exps = [o \in ObjsAssoc |-> Populate(o, K(o))]
            /\ dicts = [o \in ObjsAssoc |-> PopulateAssigned(o, K(o))]
            /\ tags = [o \in ObjsAssoc |-> <<o>>]
            /\ pc = [o \in ObjsAssoc |-> "filled"]
            /\ nops = 0
            /\ last = NoCall

\* An append of the run has raised, which ends the run
Raised == \E o \in ObjsAssoc : pc[o] = "raised"

\* The n-th statement of the run: o.append(x)
AssocStep(n, o, x) ==
    /\ nops = n
    /\ ~Raised
    /\ AppendStep(o, x)
    /\ pc' = [pc EXCEPT ![o] = IF append(Heap, o, x).ok THEN "appended"
                               ELSE "raised"]

NextAssoc ==
    \/ AssocStep(0, "A", "B")
    \/ AssocStep(1, "A", "C")
    \/ AssocStep(2, "B2", "C2")
    \/ AssocStep(3, "A2", "B2")

SpecAssoc == InitAssoc /\ [][NextAssoc]_vars

\* C5: for valid sets A, B, C of one reference year and compatible units,
\* merging A with B and then C, and merging A with (B merged with C), both
\* succeed and give the same value array and the same coord array.
C5_AppendAssociative ==
    /\ ~Raised
    /\ nops = 4 =>
          /\ exps["A"].value = exps["A2"].value
          /\ exps["A"].coord = exps["A2"].coord

----------------------------------------------------------------------------
\* C11: append on a non-empty base raises whenever the reference years of
\* base and incoming differ, whatever the units; so a successful append on
\* a non-empty base leaves ref_year of base as it was.
C11_RefYearMustMatch ==
    /\ (WasAppendNonEmpty /\ PreBase.ref_year # PreInc.ref_year) => ~last.ok
    /\ AppendedNonEmpty => Merged.ref_year = PreBase.ref_year

\* An append of a valid set of the same unit and another year raised
C11_Witness ==
    /\ WasAppendNonEmpty /\ ~last.ok
    /\ DefaultsFit(PreBase)
    /\ Valid(last.pre, last.other)
    /\ PreBase.value_unit = "USD" /\ PreInc.value_unit = "USD"
    /\ PreBase.ref_year < PreInc.ref_year

----------------------------------------------------------------------------
\* check() called on one set whose every attribute is, independently of the
\* others, absent, filled or of a wrong length

ObjsCheck == {"base"}

Lengths == {"ok", "bad"}
Optional == {"empty", "ok", "bad"}

CheckKnobs ==
    {Knobs(ids, "NA", present_ref_year, v, i, c, d, cv, ct, rg, a) :
        ids \in IdSeqs, v \in Lengths, i \in Lengths, c \in Lengths,
        d \in Optional, cv \in Optional, ct \in Optional, rg \in Optional,
        a \in Optional}

InitCheck ==
    \E k \in CheckKnobs :
        /\ exps = [o \in ObjsCheck |-> Populate(o, k)]
        /\ dicts = [o \in ObjsCheck |-> PopulateAssigned(o, k)]
        /\ tags = [o \in ObjsCheck |-> <<o>>]
        /\ pc = [o \in ObjsCheck |-> "filled"]
        /\ nops = 0
        /\ last = NoCall

NextCheck == \E o \in ObjsCheck : CheckCall(o)

SpecCheck == InitCheck /\ [][NextCheck]_vars

\* The last call was self.check()
WasCheck == last.op = "check"

\* The set of the last check() before the call and now
PreSelf == last.pre.exps[last.self]
PreSelfAssigned == AssignedOf(last.pre, last.self)
Now == exps[last.self]

\* What each step of check() finds wrong with set e and its assigned dict
IdsRepeat(e) == ~Distinct(e.id)

ObligatoryMisfit(e) ==
    \/ Len(e.value) # Len(e.id)
    \/ Len(e.impact_id) # Len(e.id)
    \/ Len(e.coord) # Len(e.id)

DefaultsMisfit(e) == ~DefaultsFit(e)

OptionalMisfit(e, ass) ==
    \/ Len(e.category_id) \notin {0, Len(e.id)}
    \/ Len(e.region_id) \notin {0, Len(e.id)}
    \/ \E k \in Keys(ass) : Len(ass[k]) \notin {0, Len(e.id)}

\* The backfill has run on the set of the last check(): deductible, unless
\* of a wrong length, is the old one or zeros; otherwise nothing changed
Backfilled ==
    Len(PreSelf.deductible) \in {0, Len(PreSelf.id)}
        => Now.deductible = DeductibleOrZero(PreSelf)

Untouched == View(Heap, last.self) = View(last.pre, last.self)

\* The step that raises if the steps run in the order uniqueness,
\* obligatory, defaultable, optional
StepDefaultsThenOptionals ==
    IF IdsRepeat(PreSelf) THEN "unique"
    ELSE IF ObligatoryMisfit(PreSelf) THEN "obligatories"
    ELSE IF DefaultsMisfit(PreSelf) THEN "defaults"
    ELSE IF OptionalMisfit(PreSelf, PreSelfAssigned) THEN "optionals"
    ELSE ""

\* The step that raises if the steps run in the order uniqueness,
\* obligatory, optional, defaultable
StepOptionalsThenDefaults ==
    IF IdsRepeat(PreSelf) THEN "unique"
    ELSE IF ObligatoryMisfit(PreSelf) THEN "obligatories"
    ELSE IF OptionalMisfit(PreSelf, PreSelfAssigned) THEN "optionals"
    ELSE IF DefaultsMisfit(PreSelf) THEN "defaults"
    ELSE ""

\* C12 as claimed: check() runs (1) uniqueness of id, (2) the obligatory
\* fields, (3) the backfill of deductible and cover, (4) the optional fields
\* category_id, region_id and assigned, a later step only if every earlier
\* one passed.
C12_Original ==
    WasCheck =>
        /\ last.why = StepDefaultsThenOptionals
        /\ IF last.why \in {"unique", "obligatories"} THEN Untouched
           ELSE Backfilled

\* C12 amended: check() runs (1) uniqueness of id, (2) the obligatory
\* fields, (3) the optional fields category_id, region_id and assigned, (4)
\* the backfill of deductible and cover, a later step only if every earlier
\* one passed.
C12_CheckOrder ==
    WasCheck =>
        /\ last.why = StepOptionalsThenDefaults
        /\ IF last.why \in {"unique", "obligatories", "optionals"}
           THEN Untouched
           ELSE Backfilled

\* check() raised on an optional field of a set whose cover has a wrong
\* length too, and had filled in no deductible
C12_Witness ==
    /\ WasCheck /\ ~last.ok
    /\ ~IdsRepeat(PreSelf) /\ ~ObligatoryMisfit(PreSelf)
    /\ OptionalMisfit(PreSelf, PreSelfAssigned)
    /\ Len(PreSelf.cover) > Len(PreSelf.id)
    /\ Len(PreSelf.id) > 0
    /\ Len(Now.deductible) = 0

\* C13: whenever check() succeeds, deductible, cover, value, impact_id, id
\* and coord have the same length; a deductible that was empty is all
\* zeros, a cover that was empty equals value; category_id, region_id and
\* assigned are as before.
C13_CheckedSetIsConsistent ==
    (WasCheck /\ last.ok) =>
        /\ Len(Now.deductible) = Len(Now.id)
        /\ Len(Now.cover) = Len(Now.id)
        /\ Len(Now.value) = Len(Now.id)
        /\ Len(Now.impact_id) = Len(Now.id)
        /\ Len(Now.coord) = Len(Now.id)
        /\ Len(PreSelf.deductible) = 0
              => Now.deductible = [i \in 1..Len(Now.id) |-> 0]
        /\ Len(PreSelf.cover) = 0 => Now.cover = Now.value
        /\ Now.category_id = PreSelf.category_id
        /\ Now.region_id = PreSelf.region_id
        /\ AssignedOf(Heap, last.self) = PreSelfAssigned

\* check() succeeded on a set without deductible and cover and with
\* category_id, no region_id and assigned data
C13_Witness ==
    /\ WasCheck /\ last.ok
    /\ Len(Now.id) > 1
    /\ Len(PreSelf.deductible) = 0 /\ Len(PreSelf.cover) = 0
    /\ Len(Now.deductible) = Len(Now.id)
    /\ Len(Now.category_id) > 0 /\ Len(Now.region_id) = 0
    /\ Keys(PreSelfAssigned) # {}

\* C14: whenever check() raises, no field of the set has been changed; in
\* particular neither deductible nor cover has been backfilled.
C14_FailedCheckLeavesSet ==
    (WasCheck /\ ~last.ok) => Untouched

----------------------------------------------------------------------------
\* C15: assign(hazard) stores the indices the interpolator returns under the
\* hazard type in assigned, replacing an earlier entry of that type, and
\* changes no other key of assigned and no other field of the set; so the
\* keys of assigned are those it had plus the hazard types assigned.
C15_AssignStoresUnderLabel ==
    last.op = "assign" =>
        LET b == PreSelfAssigned
            m == AssignedOf(Heap, last.self)
        IN  /\ Keys(m) = Keys(b) \cup {last.haz_type}
            /\ m[last.haz_type] = resample(last.centroids, PreSelf.coord)
            /\ \A k \in Keys(b) \ {last.haz_type} : m[k] = b[k]
            /\ Now = PreSelf
            /\ tags[Now.tag] = last.pre.tags[PreSelf.tag]

\* An assign replaced the entry of its hazard type by other indices and
\* kept the entry the Reader had made
C15_Witness ==
    /\ last.op = "assign"
    /\ last.haz_type \in Keys(PreSelfAssigned)
    /\ PreSelfAssigned[last.haz_type] #
          AssignedOf(Heap, last.self)[last.haz_type]
    /\ "NA" \in Keys(PreSelfAssigned)
    /\ Len(PreSelfAssigned["NA"]) > 0

----------------------------------------------------------------------------
\* C16: once base.append(X) has succeeded, no later call on base (assign,
\* append, check) changes any field of X, neither X.assigned nor X.tag.
C16_IncomingIndependent ==
    [][\A x \in Objs :
          (pc[x] = "merged" /\ nops' = nops + 1 /\ last'.self # x)
              => View(Heap', x) = View(Heap, x)]_vars

====
